---- MODULE Spec2Model ----
(***************************************************************************)
(* Model of the impervious-surface pipeline (src/pipeline.py) and of the   *)
(* Surface / Parcel / GeoSQL classes it drives (src/impervious.py).        *)
(*                                                                         *)
(* Five specifications share this module:                                  *)
(*   Spec        the run of pipeline.py's __main__ block, statement group  *)
(*               by statement group, over the fingerprint store (shelve),  *)
(*               the source tables and the four sinks;                     *)
(*   SpecHash    Surface.__key / Surface.__hash__ on bounded snapshots;    *)
(*   SpecMerge   the union fold of pipeline.py lines 101-122;              *)
(*   SpecCleanse Parcel.cleansed;                                          *)
(*   SpecParcel  Parcel.cleansed followed by Parcel.impervious_metrics.    *)
(***************************************************************************)
EXTENDS Integers, Sequences, FiniteSets, TLC

(***************************************************************************)
(* Bounds of the model.                                                    *)
(***************************************************************************)
\* LAYER_ORDER holds 7 layers (pipeline.py:13-19); the model keeps the
\* first NumLayers of them.
NumLayers == 2
\* Number of pipeline runs one behaviour holds.
MaxRuns == 2
\* Largest number of consecutive failing attempts a database operation is
\* scheduled to make before it would succeed.
MaxFails == 2
\* Largest guid and largest geometry (as WKB) value of a row.
MaxGuid == 2
MaxWkb == 2
\* Largest number of rows of a snapshot in SpecHash.
MaxRows == 2
\* SpecMerge: number of regions of the plane, and length of the source list.
NumCells == 1
MaxSources == 3
\* SpecCleanse / SpecParcel: regions of the plane, single-part polygons of
\* the exploded parcel frame, and COBPIN values.
NumParcelCells == 2
MaxParts == 2
MaxPin == 2

Layers == 1..NumLayers
Guids == 1..MaxGuid
Wkbs == 1..MaxWkb

(***************************************************************************)
(* Rows and snapshots.  A row of a source is (guid, geometry); a gdf is    *)
(* the sequence of rows in the order the database returned them.           *)
(***************************************************************************)
Rows == [guid : Guids, wkb : Wkbs]

Range(s) == {s[i] : i \in 1..Len(s)}

\* All row orders in which a table holding the row set S can be read.
Orders(S) ==
  {s \in [1..Cardinality(S) -> S] : \A r \in S : \E i \in 1..Cardinality(S) : s[i] = r}

\* sorted(tmp, key=lambda x: x[0]): Python's sort is stable and compares
\* the guid only, so rows of equal guid keep their order of arrival.
RECURSIVE InsertByGuid(_, _)
InsertByGuid(sorted, r) ==
  IF sorted = << >> THEN << r >>
  ELSE IF sorted[Len(sorted)].guid <= r.guid THEN Append(sorted, r)
  ELSE Append(InsertByGuid(SubSeq(sorted, 1, Len(sorted) - 1), r), sorted[Len(sorted)])

RECURSIVE SortedByGuid(_)
SortedByGuid(rows) ==
  IF rows = << >> THEN << >>
  ELSE InsertByGuid(SortedByGuid(SubSeq(rows, 1, Len(rows) - 1)), rows[Len(rows)])

\* A plausible slip: the key keeps the rows in the order they were read.
KeyUnsorted(rows) == rows

\* Surface.__key: the tuple of (guid, wkb) pairs sorted by guid.
Key(rows) == SortedByGuid(rows)

\* Surface.__hash__: sha256 of str(key), as an integer.  SHA-256 and str()
\* of a tuple of (guid, bytes) pairs are taken to be injective, so the
\* digest is represented by the text it was computed from.
SurfaceHash(rows) == [sha256 |-> Key(rows)]

(***************************************************************************)
(* State.                                                                  *)
(***************************************************************************)
VARIABLES
  \* ---- Spec: what outlives a run
  db,           \* source tables: layer -> set of rows
  store,        \* the shelve file data/hashes: layer name -> stored hash
  surfFile,     \* data/ImperviousSurfaces.shp
  surfTable,    \* GISReferenceData.PW.ImperviousSurfaces
  parcelFile,   \* data/ImperviousParcels.shp
  parcelTable,  \* GISReferenceData.PW.UtilityBillingAreas
  \* ---- Spec: the running process
  pc,           \* position in the __main__ block
  creds,        \* db_creds: "none" when get_creds returned None
  sde,          \* whether the file named by --sde exists
  gdfs,         \* layer -> rows of the Surface object, in read order
  changes,      \* layers whose equals_previous() was False
  final,        \* the merged layer held in memory
  \* ---- Spec: history of the runs (observations, not program state)
  runs, outcome, start, prev, clean, quiet, mutated, tried, done, attempts, sched,
  \* ---- SpecHash
  snapA, snapB, hashed, hashA, hashB,
  \* ---- SpecMerge
  sources, primary, folded,
  \* ---- SpecParcel
  parcels, areas, surfs, cleansedOut, metricsOut, pstage

persistVars == << db, store, surfFile, surfTable, parcelFile, parcelTable >>
procVars == << pc, creds, sde, gdfs, changes, final >>
histVars == << runs, outcome, start, prev, clean, quiet, mutated, tried, done, attempts, sched >>
runVars == << persistVars, procVars, histVars >>
hashVars == << snapA, snapB, hashed, hashA, hashB >>
mergeVars == << sources, primary, folded >>
parcelVars == << parcels, areas, surfs, cleansedOut, metricsOut, pstage >>
vars == << runVars, hashVars, mergeVars, parcelVars >>

(***************************************************************************)
(* The fingerprint store.                                                  *)
(***************************************************************************)
\* A plausible slip (the alternative the historical variants took): a
\* missing entry is read as "nothing to compare, so unchanged".
EqualsPreviousMissingIsEqual(st, l, rows) ==
  IF l \in DOMAIN st THEN SurfaceHash(rows) = st[l] ELSE TRUE

\* Surface.equals_previous: db[self.name] raises KeyError when the name has
\* no entry, and the handler answers False; otherwise the hashes compare.
\* The shelf is opened with flag 'c' and only read.
equals_previous(st, l, rows) ==
  IF l \in DOMAIN st THEN SurfaceHash(rows) = st[l] ELSE FALSE

\* Surface.store_hash: db[self.name] = hash(self).
store_hash(st, l, rows) ==
  [k \in DOMAIN st \cup {l} |-> IF k = l THEN SurfaceHash(rows) ELSE st[k]]

\* [s.store_hash() for s in surfaces]: every layer, in LAYER_ORDER.
RECURSIVE StoreAll(_, _, _)
StoreAll(st, g, n) ==
  IF n = 0 THEN st ELSE store_hash(StoreAll(st, g, n - 1), n, g[n])

(***************************************************************************)
(* The data the run moves.  The run specification follows a layer by the   *)
(* feature sets it was built from; the geometry of the merge is the        *)
(* subject of SpecMerge.                                                   *)
(***************************************************************************)
Row(g, w) == [guid |-> g, wkb |-> w]

\* The contents a source table takes in Spec.
RunContents == { {Row(1, 1)}, {Row(1, 1), Row(2, 1)} }

NoRows == [l \in Layers |-> {}]
Data(kind, of) == [kind |-> kind, of |-> of]
PriorSurfaces == Data("prior surfaces", NoRows)
PriorParcels == Data("prior parcels", NoRows)
NoFinal == Data("none", NoRows)

\* pipeline.py:101-128: the layer merged from the Surface objects' gdfs.
Merged(g) == Data("surfaces", [l \in Layers |-> Range(g[l])])
\* pipeline.py:154-155: the parcels enriched with the merged layer.
Enriched(f) == Data("parcels", f.of)

DbOps == {"trunc_surf", "insert_surf", "trunc_parcels", "insert_parcels"}
SinkSteps == DbOps \cup {"save_surf_file", "save_parcel_file"}

(***************************************************************************)
(* Parcel.__init__(self, sql_file, db_user, db_pass) has no defaults; the  *)
(* pipeline calls Parcel(QUERY_PATH / 'parcels.sql').                      *)
(***************************************************************************)
ParcelInitParams == {"sql_file", "db_user", "db_pass"}
ParcelCallArgs == {"sql_file"}
\* Python raises TypeError for missing required positional arguments.
ParcelInitRaises == ParcelInitParams \ ParcelCallArgs # {}

Snapshot ==
  [store |-> store, surfFile |-> surfFile, surfTable |-> surfTable,
   parcelFile |-> parcelFile, parcelTable |-> parcelTable]

otherVars == << hashVars, mergeVars, parcelVars >>

\* Leaving the try block: by sys.exit(), by the except handler, or by
\* falling off its end.  The process ends and its frames go with it.
Finish(o) ==
  /\ pc' = "idle"
  /\ outcome' = o
  /\ gdfs' = [l \in Layers |-> << >>]
  /\ final' = NoFinal

(***************************************************************************)
(* pipeline.py:72-83: credentials, arguments, the sde connection file.     *)
(***************************************************************************)
StartRun ==
  /\ pc = "idle"
  /\ runs < MaxRuns
  /\ \E c \in {"none", "ok"}, s \in {"missing", "exists"} :
       /\ creds' = c
       /\ sde' = s
       /\ clean' = (c = "ok" /\ s = "exists")
       /\ IF s = "missing" THEN Finish("ABORTED")
          ELSE pc' = "query" /\ outcome' = "RUNNING"
  /\ runs' = runs + 1
  /\ start' = Snapshot
  /\ prev' = [outcome |-> outcome, changes |-> changes, checked |-> "check" \in done,
              clean |-> clean]
  /\ quiet' = (runs >= 1 /\ ~mutated)
  /\ mutated' = FALSE
  /\ tried' = {}
  /\ done' = {}
  /\ attempts' = [o \in DbOps |-> 0]
  /\ sched' = [o \in DbOps |-> 0]
  /\ gdfs' = [l \in Layers |-> << >>]
  /\ changes' = {}
  /\ final' = NoFinal
  /\ UNCHANGED << persistVars, otherVars >>

(***************************************************************************)
(* pipeline.py:85-92: one Surface per layer; Surface.__init__ reads the    *)
(* gdf (impervious.py:49, 95-117) in whatever order the database answers.  *)
(***************************************************************************)
QuerySources ==
  /\ pc = "query"
  /\ \E g \in [Layers -> UNION {Orders(c) : c \in RunContents}] :
       /\ \A l \in Layers : g[l] \in Orders(db[l])
       /\ gdfs' = g
  /\ pc' = "check"
  /\ tried' = tried \cup {"query"}
  /\ done' = done \cup {"query"}
  /\ UNCHANGED << persistVars, creds, sde, changes, final, runs, outcome, start,
                  prev, clean, quiet, mutated, attempts, sched, otherVars >>

\* The connection or the query raises; the except handler logs it.
QuerySourcesFails ==
  /\ pc = "query"
  /\ Finish("FAILED")
  /\ clean' = FALSE
  /\ tried' = tried \cup {"query"}
  /\ UNCHANGED << persistVars, creds, sde, changes, runs, start,
                  prev, quiet, mutated, done, attempts, sched, otherVars >>

(***************************************************************************)
(* pipeline.py:94-99: the change check and the unchanged exit.             *)
(***************************************************************************)
\* A plausible slip: the fingerprints are committed as soon as a change
\* is seen.
CheckChangesStoring ==
  /\ pc = "check"
  /\ LET ch == {l \in Layers : ~equals_previous(store, l, gdfs[l])} IN
       /\ changes' = ch
       /\ store' = StoreAll(store, gdfs, NumLayers)
       /\ IF ch = {} THEN Finish("UNCHANGED")
          ELSE pc' = "merge" /\ UNCHANGED << outcome, gdfs, final >>
  /\ tried' = tried \cup {"check"}
  /\ done' = done \cup {"check"}
  /\ UNCHANGED << db, surfFile, surfTable, parcelFile, parcelTable, creds, sde, runs, start, prev, clean, quiet, mutated, attempts, sched,
                  otherVars >>

CheckChanges ==
  /\ pc = "check"
  /\ LET ch == {l \in Layers : ~equals_previous(store, l, gdfs[l])} IN
       /\ changes' = ch
       /\ IF ch = {} THEN Finish("UNCHANGED")
          ELSE pc' = "merge" /\ UNCHANGED << outcome, gdfs, final >>
  /\ tried' = tried \cup {"check"}
  /\ done' = done \cup {"check"}
  /\ UNCHANGED << persistVars, creds, sde, runs, start, prev, clean,
                  quiet, mutated, attempts, sched, otherVars >>

(***************************************************************************)
(* pipeline.py:101-128: union fold, dissolve, explode.                     *)
(***************************************************************************)
MergeLayers ==
  /\ pc = "merge"
  /\ final' = Merged(gdfs)
  /\ pc' = "save_surf_file"
  /\ tried' = tried \cup {"merge"}
  /\ done' = done \cup {"merge"}
  /\ UNCHANGED << persistVars, creds, sde, gdfs, changes, runs, outcome, start, prev,
                  clean, quiet, mutated, attempts, sched, otherVars >>

MergeLayersFails ==
  /\ pc = "merge"
  /\ Finish("FAILED")
  /\ clean' = FALSE
  /\ tried' = tried \cup {"merge"}
  /\ UNCHANGED << persistVars, creds, sde, changes, runs, start, prev,
                  quiet, mutated, done, attempts, sched, otherVars >>

(***************************************************************************)
(* pipeline.py:130-135: final[final_fields].to_file(IMPERVIOUS_OUT).       *)
(***************************************************************************)
SaveSurfaceFile ==
  /\ pc = "save_surf_file"
  /\ surfFile' = final
  /\ pc' = "connect_surf"
  /\ tried' = tried \cup {"save_surf_file"}
  /\ done' = done \cup {"save_surf_file"}
  /\ UNCHANGED << db, store, surfTable, parcelFile, parcelTable, creds, sde, gdfs,
                  changes, final, runs, outcome, start, prev, clean, quiet, mutated,
                  attempts, sched, otherVars >>

SaveSurfaceFileFails ==
  /\ pc = "save_surf_file"
  /\ Finish("FAILED")
  /\ clean' = FALSE
  /\ tried' = tried \cup {"save_surf_file"}
  /\ UNCHANGED << persistVars, creds, sde, changes, runs, start, prev,
                  quiet, mutated, done, attempts, sched, otherVars >>

(***************************************************************************)
(* pipeline.py:139-148: db_kwargs reads db_creds['username'], which raises *)
(* TypeError when get_creds returned None; then the GeoSQL constructor.    *)
(***************************************************************************)
ConnectSurfaceTable ==
  /\ pc = "connect_surf"
  /\ IF creds = "none" THEN Finish("FAILED")
     ELSE pc' = "trunc_surf" /\ UNCHANGED << outcome, gdfs, final >>
  /\ UNCHANGED << persistVars, creds, sde, changes, runs, start, prev,
                  clean, quiet, mutated, tried, done, attempts, sched, otherVars >>

(***************************************************************************)
(* GeoSQL.truncate_arcpy / GeoSQL.insert_arcpy.  sde_conn is the Path of   *)
(* an existing file, so neither takes its "skipping" branch.  Neither runs *)
(* inside a transaction, and neither is retried.                           *)
(***************************************************************************)
truncate_arcpy(table) == << >>
insert_arcpy(table, input) == Append(table, input)

\* A database operation scheduled to fail on its first k attempts is
\* called once by the pipeline: the call raises iff k > 0.
AttemptOnce(op, k) ==
  /\ sched' = [sched EXCEPT ![op] = k]
  /\ attempts' = [attempts EXCEPT ![op] = @ + 1]
  /\ tried' = tried \cup {op}
  /\ done' = IF k = 0 THEN done \cup {op} ELSE done
  /\ clean' = (clean /\ k = 0)

\* pipeline.py:149
TruncateSurfaces ==
  /\ pc = "trunc_surf"
  /\ \E k \in 0..MaxFails :
       /\ AttemptOnce("trunc_surf", k)
       /\ IF k = 0
          THEN surfTable' = truncate_arcpy(surfTable) /\ pc' = "insert_surf"
               /\ UNCHANGED << outcome, gdfs, final >>
          ELSE UNCHANGED surfTable /\ Finish("FAILED")
  /\ UNCHANGED << db, store, surfFile, parcelFile, parcelTable, creds, sde, changes, runs, start, prev, quiet, mutated, otherVars >>

\* A plausible variant: the append is retried, with a sleep, up to three
\* times before the exception is let through.
InsertSurfacesRetrying ==
  /\ pc = "insert_surf"
  /\ \E k \in 0..MaxFails :
       /\ sched' = [sched EXCEPT !["insert_surf"] = k]
       /\ attempts' = [attempts EXCEPT !["insert_surf"] = IF k < 3 THEN k + 1 ELSE 3]
       /\ tried' = tried \cup {"insert_surf"}
       /\ done' = IF k < 3 THEN done \cup {"insert_surf"} ELSE done
       /\ clean' = (clean /\ k = 0)
       /\ IF k < 3
          THEN surfTable' = insert_arcpy(surfTable, surfFile) /\ pc' = "enrich"
               /\ UNCHANGED << outcome, gdfs, final >>
          ELSE UNCHANGED surfTable /\ Finish("FAILED")
  /\ UNCHANGED << db, store, surfFile, parcelFile, parcelTable, creds, sde, changes, runs, start, prev, quiet, mutated, otherVars >>

\* pipeline.py:150: appends the file just written to the truncated table.
InsertSurfaces ==
  /\ pc = "insert_surf"
  /\ \E k \in 0..MaxFails :
       /\ AttemptOnce("insert_surf", k)
       /\ IF k = 0
          THEN surfTable' = insert_arcpy(surfTable, surfFile) /\ pc' = "enrich"
               /\ UNCHANGED << outcome, gdfs, final >>
          ELSE UNCHANGED surfTable /\ Finish("FAILED")
  /\ UNCHANGED << db, store, surfFile, parcelFile, parcelTable, creds, sde, changes, runs, start, prev, quiet, mutated, otherVars >>

(***************************************************************************)
(* pipeline.py:152-177: Parcel(...), impervious_metrics, to_file, GeoSQL,  *)
(* truncate, insert, and the store_hash of every surface.  The statements  *)
(* run in TailSteps order up to the first that raises; f names the step    *)
(* whose call into the outside world fails ("none": no such failure).      *)
(***************************************************************************)
TailSteps ==
  << "parcel_init", "metrics", "save_parcel_file", "trunc_parcels",
     "insert_parcels", "store_hash" >>
TailFaults == {"none", "metrics", "save_parcel_file", "trunc_parcels", "insert_parcels"}

Raises(step, f) == (step = "parcel_init" /\ ParcelInitRaises) \/ step = f

\* The steps attempted: all up to and including the first that raises.
TailTried(f) ==
  {TailSteps[i] : i \in {j \in 1..Len(TailSteps) :
                          \A h \in 1..(j - 1) : ~Raises(TailSteps[h], f)}}
\* The steps completed.
TailDone(f) == {st \in TailTried(f) : ~Raises(st, f)}

EnrichAndPublishParcels ==
  /\ pc = "enrich"
  /\ \E f \in TailFaults :
       LET tr == TailTried(f)
           dn == TailDone(f)
           new == Enriched(final)
       IN
       /\ parcelFile' = IF "save_parcel_file" \in dn THEN new ELSE parcelFile
       /\ parcelTable' =
            IF "insert_parcels" \in dn
              THEN insert_arcpy(truncate_arcpy(parcelTable), new)
            ELSE IF "trunc_parcels" \in dn THEN truncate_arcpy(parcelTable)
            ELSE parcelTable
       /\ store' = IF "store_hash" \in dn THEN StoreAll(store, gdfs, NumLayers) ELSE store
       /\ Finish(IF "store_hash" \in dn THEN "DONE" ELSE "FAILED")
       /\ tried' = tried \cup tr
       /\ done' = done \cup dn
       /\ attempts' = [o \in DbOps |-> IF o \in tr THEN attempts[o] + 1 ELSE attempts[o]]
       /\ sched' = [o \in DbOps |-> IF o \in tr /\ o = f THEN 1 ELSE sched[o]]
       /\ clean' = (clean /\ (f \notin tr))
  /\ UNCHANGED << db, surfFile, surfTable, creds, sde, changes, runs,
                  start, prev, quiet, mutated, otherVars >>

(***************************************************************************)
(* The world between two runs: an editor changes one source table.         *)
(***************************************************************************)
MutateSource ==
  /\ pc = "idle"
  /\ runs >= 1 /\ runs < MaxRuns
  /\ ~mutated
  /\ \E l \in Layers, c \in RunContents :
       /\ c # db[l]
       /\ db' = [db EXCEPT ![l] = c]
  /\ mutated' = TRUE
  /\ UNCHANGED << store, surfFile, surfTable, parcelFile, parcelTable, procVars,
                  runs, outcome, start, prev, clean, quiet, tried, done, attempts,
                  sched, otherVars >>

(***************************************************************************)
(* Initial states of the unused parts of each specification.               *)
(***************************************************************************)
RunIdle ==
  /\ db = [l \in Layers |-> {Row(1, 1)}]
  /\ store = << >>
  /\ surfFile = PriorSurfaces
  /\ surfTable = << PriorSurfaces >>
  /\ parcelFile = PriorParcels
  /\ parcelTable = << PriorParcels >>
  /\ pc = "off"
  /\ creds = "ok"
  /\ sde = "exists"
  /\ gdfs = [l \in Layers |-> << >>]
  /\ changes = {}
  /\ final = NoFinal
  /\ runs = 0
  /\ outcome = "NONE"
  /\ start = Snapshot
  /\ prev = [outcome |-> "NONE", changes |-> {}, checked |-> FALSE, clean |-> FALSE]
  /\ clean = FALSE
  /\ quiet = FALSE
  /\ mutated = FALSE
  /\ tried = {}
  /\ done = {}
  /\ attempts = [o \in DbOps |-> 0]
  /\ sched = [o \in DbOps |-> 0]

HashIdle ==
  /\ snapA = << >> /\ snapB = << >> /\ hashed = FALSE
  /\ hashA = SurfaceHash(<< >>) /\ hashB = SurfaceHash(<< >>)
MergeIdle == sources = << >> /\ primary = {} /\ folded = 0
ParcelIdle ==
  /\ parcels = << >> /\ areas = << >> /\ surfs = {}
  /\ cleansedOut = {} /\ metricsOut = {} /\ pstage = "off"

(***************************************************************************)
(* Spec: the pipeline, run up to MaxRuns times.  The shelf and the source  *)
(* tables are files and tables the program finds as they are: any entries, *)
(* fresh or stale, for any of the layers.                                  *)
(***************************************************************************)
StoredHashes == {SurfaceHash(s) : s \in UNION {Orders(c) : c \in RunContents}}
Stores == UNION {[D -> StoredHashes] : D \in SUBSET Layers}

Init ==
  /\ db \in [Layers -> RunContents]
  /\ store \in Stores
  /\ surfFile = PriorSurfaces
  /\ surfTable = << PriorSurfaces >>
  /\ parcelFile = PriorParcels
  /\ parcelTable = << PriorParcels >>
  /\ pc = "idle"
  /\ creds = "ok"
  /\ sde = "exists"
  /\ gdfs = [l \in Layers |-> << >>]
  /\ changes = {}
  /\ final = NoFinal
  /\ runs = 0
  /\ outcome = "NONE"
  /\ start = Snapshot
  /\ prev = [outcome |-> "NONE", changes |-> {}, checked |-> FALSE, clean |-> FALSE]
  /\ clean = FALSE
  /\ quiet = FALSE
  /\ mutated = FALSE
  /\ tried = {}
  /\ done = {}
  /\ attempts = [o \in DbOps |-> 0]
  /\ sched = [o \in DbOps |-> 0]
  /\ HashIdle /\ MergeIdle /\ ParcelIdle

Next ==
  \/ StartRun
  \/ QuerySources
  \/ QuerySourcesFails
  \/ CheckChanges
  \/ MergeLayers
  \/ MergeLayersFails
  \/ SaveSurfaceFile
  \/ SaveSurfaceFileFails
  \/ ConnectSurfaceTable
  \/ TruncateSurfaces
  \/ InsertSurfaces
  \/ EnrichAndPublishParcels
  \/ MutateSource

Spec == Init /\ [][Next]_vars

(***************************************************************************)
(* Claims settled under Spec.                                              *)
(*   clean       no failure was injected into the run and its              *)
(*               configuration was valid;                                  *)
(*   quiet       no source table was edited since the previous run;        *)
(*   start       the store and the sinks as the run found them;            *)
(*   tried/done  the steps the run attempted / completed.                  *)
(***************************************************************************)
RunEnded == pc = "idle" /\ runs >= 1
Sinks(x) == << x.surfFile, x.surfTable, x.parcelFile, x.parcelTable >>

\* C1 (the claim as stated; the code violates it): the second of two runs
\* in succession, neither with an injected failure and with no source
\* edited in between, ends UNCHANGED having attempted no sink write and no
\* store_hash.
C1_UnchangedSkip ==
  (RunEnded /\ runs >= 2 /\ quiet /\ prev.clean /\ clean)
    => /\ outcome = "UNCHANGED"
       /\ tried \cap SinkSteps = {}
       /\ "store_hash" \notin tried

\* C2: the store differs from what the run found only once both tables
\* have been loaded in that run; a run that ends FAILED leaves the store
\* as it found it; and the run after a FAILED one, with no source edited
\* in between, finds the same layers changed.
C2_CommitGating ==
  /\ (store # start.store) => {"insert_surf", "insert_parcels"} \subseteq done
  /\ (RunEnded /\ outcome = "FAILED") => store = start.store
  /\ ("check" \in done /\ quiet /\ prev.outcome = "FAILED" /\ prev.checked)
       => changes = prev.changes

\* C2 witness: a run that failed at a database write after finding
\* changes, following a failed run that had found the same changes.
C2_Witness ==
  /\ RunEnded /\ outcome = "FAILED"
  /\ "insert_surf" \in tried /\ "insert_surf" \notin done
  /\ quiet /\ prev.outcome = "FAILED" /\ prev.checked
  /\ changes # {} /\ changes = prev.changes
  /\ store = start.store

\* C3 (the claim as stated; the code violates it): a run that ends FAILED
\* leaves the four sinks as it found them.  (Stated for runs whose
\* credentials were found, so that the violation is the publish sequence's
\* own.)
C3_NoPartialPublish ==
  (RunEnded /\ outcome = "FAILED" /\ creds = "ok") => Sinks(Snapshot) = Sinks(start)

C5_MissingMeansChanged ==
  /\ "check" \in done => (Layers \ DOMAIN start.store) \subseteq changes
  /\ outcome = "UNCHANGED" => DOMAIN start.store = Layers
  /\ (pc = "merge" \/ outcome = "UNCHANGED") => store = start.store

\* C5 witness: the check has run on a store that holds an up-to-date entry
\* for one layer and none for another, and the run goes on to merge.
C5_Witness ==
  /\ pc = "merge"
  /\ DOMAIN start.store # Layers
  /\ \E l \in DOMAIN start.store : l \notin changes
  /\ store = start.store

\* The steps the claim C11 calls processing: the source queries, the merge
\* and the writes to the sinks.
Processing == {"query", "merge"} \cup SinkSteps
ConfigError == creds = "none" \/ sde = "missing"

\* C11 (the claim as stated; the code violates it): a run whose credentials
\* could not be retrieved, or whose sde connection file does not exist,
\* attempts no source query, no merge and no sink write, leaves the sinks
\* as it found them, and ends ABORTED.
C11_ConfigFatal ==
  (runs >= 1 /\ ConfigError)
    => /\ tried \cap Processing = {}
       /\ Sinks(Snapshot) = Sinks(start)
       /\ pc = "idle" => outcome = "ABORTED"

\* The half of C11 the code keeps: a missing sde connection file ends the
\* run at once, with nothing attempted and nothing written.
C11_SdeMissingAborts ==
  (runs >= 1 /\ sde = "missing")
    => /\ pc = "idle" /\ outcome = "ABORTED"
       /\ tried = {}
       /\ Snapshot = start

\* The half of C11 the code breaks: a run without credentials that has
\* overwritten the surface file and ended FAILED at db_creds['username'].
C11_MissingCredsWritten ==
  /\ RunEnded /\ creds = "none" /\ sde = "exists"
  /\ outcome = "FAILED"
  /\ {"query", "merge", "save_surf_file"} \subseteq done
  /\ surfFile # start.surfFile

\* A run without credentials that found no change ends UNCHANGED: the
\* missing credentials were never looked at.
C11_MissingCredsUnnoticed ==
  RunEnded /\ creds = "none" /\ sde = "exists" /\ outcome = "UNCHANGED"

(***************************************************************************)
(* SpecHash: Surface.__hash__ on two snapshots.  A snapshot is the rows of *)
(* one read of a source, in any order; the guid is the row's unique id     *)
(* ("sorted by uid", impervious.py:63), so no two rows of a snapshot share *)
(* a guid.                                                                 *)
(***************************************************************************)
UniqueGuids(rows) ==
  \A i, j \in 1..Len(rows) : rows[i].guid = rows[j].guid => i = j

Snapshots ==
  {s \in UNION {[1..n -> Rows] : n \in 0..MaxRows} : UniqueGuids(s)}

HashInit ==
  /\ snapA \in Snapshots
  /\ snapB \in Snapshots
  /\ hashed = FALSE
  /\ hashA = SurfaceHash(<< >>)
  /\ hashB = SurfaceHash(<< >>)
  /\ RunIdle /\ MergeIdle /\ ParcelIdle

\* hash(self) on the Surface of each snapshot.
HashSnapshots ==
  /\ ~hashed
  /\ hashA' = SurfaceHash(snapA)
  /\ hashB' = SurfaceHash(snapB)
  /\ hashed' = TRUE
  /\ UNCHANGED << snapA, snapB, runVars, mergeVars, parcelVars >>

HashNext == HashSnapshots

SpecHash == HashInit /\ [][HashNext]_vars

Cells == 1..NumCells
NaN == "NaN"
GuidValues == {"g1", "g2"}
SurfTypes == {"Hard", "Building"}
Pieces == [cell : Cells, guid : GuidValues, surftype : SurfTypes]

At(gdf, c) == {r \in gdf : r.cell = c}
Covers(gdf, c) == At(gdf, c) # {}

SourceFrames == {S \in SUBSET Pieces : \A c \in Cells : Cardinality(At(S, c)) <= 1}

\* primary.overlay(secondary, how='union'): the pieces of both frames, the
\* remainders of the primary and the remainders of the secondary, with the
\* colliding columns suffixed _1 and _2 and NaN where a frame is absent.
Overlay(prim, sec) ==
  {[cell |-> p.cell, guid_1 |-> p.guid, surftype_1 |-> p.surftype,
    guid_2 |-> q.guid, surftype_2 |-> q.surftype] :
      <<p, q>> \in {pq \in prim \X sec : pq[1].cell = pq[2].cell}}
  \cup
  {[cell |-> p.cell, guid_1 |-> p.guid, surftype_1 |-> p.surftype,
    guid_2 |-> NaN, surftype_2 |-> NaN] : p \in {x \in prim : ~Covers(sec, x.cell)}}
  \cup
  {[cell |-> q.cell, guid_1 |-> NaN, surftype_1 |-> NaN,
    guid_2 |-> q.guid, surftype_2 |-> q.surftype] : q \in {x \in sec : ~Covers(prim, x.cell)}}

isna(x) == x = NaN

\* A plausible slip: the arguments of np.where swapped, so the secondary
\* labels the overlap.
WhereSecondaryFirst(x1, x2) == IF ~isna(x2) THEN x2 ELSE x1

\* np.where(~union[attr_1].isna(), union[attr_1], union[attr_2])
Where(x1, x2) == IF ~isna(x1) THEN x1 ELSE x2

\* One pass of the loop body: overlay, relabel, keep guid/surftype/geometry.
FoldStep(prim, sec) ==
  {[cell |-> u.cell,
    guid |-> Where(u.guid_1, u.guid_2),
    surftype |-> Where(u.surftype_1, u.surftype_2)] : u \in Overlay(prim, sec)}

MergeInit ==
  /\ \E s \in SourceFrames : sources = << s >> /\ primary = s
  /\ folded = 1
  /\ RunIdle /\ HashIdle /\ ParcelIdle

\* for surface in surfaces[1:]: the next source is folded into primary.
FoldNext ==
  /\ folded < MaxSources
  /\ \E s \in SourceFrames :
       /\ sources' = Append(sources, s)
       /\ primary' = FoldStep(primary, s)
  /\ folded' = folded + 1
  /\ UNCHANGED << runVars, hashVars, parcelVars >>

MergeNext == FoldNext

SpecMerge == MergeInit /\ [][MergeNext]_vars

\* The sources of the list that cover region c, by position.
Covering(c) == {i \in 1..Len(sources) : Covers(sources[i], c)}
Earliest(c) == CHOOSE i \in Covering(c) : \A j \in Covering(c) : i <= j
Attrs(gdf, c) == {<< r.guid, r.surftype >> : r \in At(gdf, c)}

PCells == 1..NumParcelCells
Pins == 1..MaxPin

Parts ==
  {q \in [cobpin : Pins, cells : SUBSET PCells, holes : SUBSET PCells] :
     q.cells # {} /\ q.cells \cap q.holes = {}}
PartLists == UNION {[1..n -> Parts] : n \in 0..MaxParts}

\* exploded['CONTAINER']: len(x.interiors) > 0
Container(q) == q.holes # {}
\* Polygon(x.exterior): the polygon of the exterior ring, holes filled.
Exterior(q) == q.cells \cup q.holes
\* predicate='within' on two exterior polygons.
Within(a, b) == Exterior(a) \subseteq Exterior(b)

\* index_container of the left join: the containers a part lies within.
IndexContainer(parts, i) ==
  {j \in 1..Len(parts) : Container(parts[j]) /\ Within(parts[i], parts[j])}

\* A plausible slip: notna() for isna(), keeping the parcelitos.
KeptComparesMatched(parts) ==
  {i \in 1..Len(parts) : ~Container(parts[i]) /\ IndexContainer(parts, i) # {}}

\* idx: the non-containers whose left join found no container (NaN).
KeptCompares(parts) ==
  {i \in 1..Len(parts) : ~Container(parts[i]) /\ IndexContainer(parts, i) = {}}

\* Parcel.cleansed: the containers and the kept non-containers, each as its
\* exterior polygon, under the index of the exploded frame.
Cleansed(parts) ==
  {[idx |-> i, cobpin |-> parts[i].cobpin, cells |-> Exterior(parts[i])] :
     i \in {j \in 1..Len(parts) : Container(parts[j])} \cup KeptCompares(parts)}

\* Parcel.__init__: self._cleansed = self.cleansed
Cleanse ==
  /\ pstage = "read"
  /\ cleansedOut' = Cleansed(parcels)
  /\ pstage' = "cleansed"
  /\ UNCHANGED << parcels, areas, surfs, metricsOut, runVars, hashVars, mergeVars >>

CleanseInit ==
  /\ parcels \in PartLists
  /\ areas = << >>
  /\ surfs = {}
  /\ cleansedOut = {}
  /\ metricsOut = {}
  /\ pstage = "read"
  /\ RunIdle /\ HashIdle /\ MergeIdle

CleanseNext == Cleanse

SpecCleanse == CleanseInit /\ [][CleanseNext]_vars

Present(i) == \E r \in cleansedOut : r.idx = i
PresentStripped(i) ==
  [idx |-> i, cobpin |-> parcels[i].cobpin, cells |-> Exterior(parcels[i])] \in cleansedOut

AreaChoices == {4, 6, 10}

RECURSIVE SumOver(_, _)
\* Sum of f[x] over the finite set S.
SumOver(S, f) ==
  IF S = {} THEN 0
  ELSE LET x == CHOOSE y \in S : TRUE IN f[x] + SumOver(S \ {x}, f)

Area(cs) == SumOver(cs, areas)

\* round() of a Series is numpy's: to the nearest unit, halves to even.
Round(tenths) ==
  LET q == tenths \div 10
      r == tenths % 10
  IN IF r < 5 THEN q
     ELSE IF r > 5 THEN q + 1
     ELSE IF q % 2 = 0 THEN q ELSE q + 1

\* The surface frames: every region belongs to at most one feature.
SurfaceFrames ==
  {{[guid |-> g, cells |-> {c \in PCells : a[c] = g}] :
      g \in {a[c] : c \in PCells} \ {0}} : a \in [PCells -> {0} \cup Guids]}

\* surfaces.sjoin(parcels): inner join on "intersects".
SJoin(surfaces, cleansed) ==
  {sp \in surfaces \X cleansed : sp[1].cells \cap sp[2].cells # {}}

\* sjoin['IMPERVAREA'] = round(sjoin['intersection'].area), row by row.
RowImpervArea(sp) == Round(Area(sp[1].cells \cap sp[2].cells))

\* dissolve(by=['COBPIN'], aggfunc={'IMPERVAREA': 'sum'}) and PERVAREA:
\* one record per COBPIN of the join, whose geometry is the union of the
\* joined rows' parcel geometries.
impervious_metrics(surfaces, cleansed) ==
  LET joined == SJoin(surfaces, cleansed)
      rowsOf(k) == {sp \in joined : sp[2].cobpin = k}
      imperv(k) == SumOver(rowsOf(k), [sp \in joined |-> RowImpervArea(sp)])
      geometry(k) == UNION {sp[2].cells : sp \in rowsOf(k)}
  IN {[COBPIN |-> k, IMPERVAREA |-> imperv(k),
       PERVAREA |-> Round(Area(geometry(k))) - imperv(k)] :
        k \in {sp[2].cobpin : sp \in joined}}

\* pipeline.py:155: parcels_lyr.impervious_metrics(final)
ImperviousMetrics ==
  /\ pstage = "cleansed"
  /\ \E f \in SurfaceFrames :
       /\ surfs' = f
       /\ metricsOut' = impervious_metrics(f, cleansedOut)
  /\ pstage' = "enriched"
  /\ UNCHANGED << parcels, areas, cleansedOut, runVars, hashVars, mergeVars >>

ParcelInit ==
  /\ parcels \in PartLists
  /\ areas \in [PCells -> AreaChoices]
  /\ surfs = {}
  /\ cleansedOut = {}
  /\ metricsOut = {}
  /\ pstage = "read"
  /\ RunIdle /\ HashIdle /\ MergeIdle

ParcelNext ==
  \/ Cleanse
  \/ ImperviousMetrics

SpecParcel == ParcelInit /\ [][ParcelNext]_vars

CleansedPins == {r.cobpin : r \in cleansedOut}
\* Total area of a COBPIN: all of its cleansed parts, rounded.
TotalArea(k) == Round(Area(UNION {r.cells : r \in {x \in cleansedOut : x.cobpin = k}}))

\* C7 (the claim as stated; the code violates it): in every record,
\* IMPERVAREA + PERVAREA is the rounded total area of the COBPIN's
\* cleansed parts, and neither is negative.
C7_AreaConservation ==
  pstage = "enriched" =>
    \A rec \in metricsOut :
      /\ rec.IMPERVAREA + rec.PERVAREA = TotalArea(rec.COBPIN)
      /\ rec.IMPERVAREA >= 0
      /\ rec.PERVAREA >= 0

\* C8 (the claim as stated; the code violates it): exactly one record per
\* COBPIN of the cleansed frame, and a COBPIN none of whose parts meets a
\* surface has IMPERVAREA 0 and PERVAREA its total area.
C8_TotalOverPins ==
  (pstage = "enriched" /\ surfs # {}) =>
    \A k \in CleansedPins :
      /\ Cardinality({rec \in metricsOut : rec.COBPIN = k}) = 1
      /\ (\A r \in cleansedOut : r.cobpin = k =>
            \A sf \in surfs : sf.cells \cap r.cells = {})
           => [COBPIN |-> k, IMPERVAREA |-> 0, PERVAREA |-> TotalArea(k)] \in metricsOut

====
